---- MODULE Spec2Model ----
(***************************************************************************)
(* Model of the SuperJSON payload converter (src/src/encoding.ts):         *)
(*   - the byte codec encode/decode (TextEncoder / TextDecoder),           *)
(*   - SuperJsonPayloadConverter.toPayload / fromPayload,                  *)
(*   - the pre-built composite payloadConverter.                           *)
(* JavaScript strings are sequences of UTF-16 code units, byte arrays are  *)
(* sequences of 0..255, and a JavaScript value is a pair <<tag, content>>. *)
(***************************************************************************)
EXTENDS Integers, Sequences, FiniteSets, TLC

VARIABLES
  pc,        \* "idle", or the call that has just completed
  text,      \* byte codec: the string given to encode
  bytes,     \* byte codec: the bytes encode returned
  decoded,   \* byte codec: the string decode returned
  arg,       \* the value given to toPayload (or the tree a hand-built body states)
  encoded,   \* what toPayload did; the payload handed to fromPayload
  restored,  \* what fromPayload did
  idx,       \* composite toPayload: the chain entry being tried
  decoder,   \* composite fromPayload: the chain entry selected, 0 for none
  textDecoder,  \* what the module's shared TextDecoder holds between calls
  calls      \* concurrent callers: each caller's call and its position

vars == <<pc, text, bytes, decoded, arg, encoded, restored, idx, decoder,
          textDecoder, calls>>

(***************************************************************************)
(* Bounds of the model.                                                    *)
(***************************************************************************)
\* Longest string handed to the byte codec on its own.
MaxStrLen == 3
\* Most elements (entries) of a generated array, object, Map or Set.
MaxLen == 2
NumCallers == 2

(***************************************************************************)
(* A const binding: Op applied to the value v, which Op names.             *)
(***************************************************************************)
Bind(v, Op(_)) == Op(v)

(***************************************************************************)
(* Byte codec: src/src/encoding.ts lines 1-8.                              *)
(***************************************************************************)
IsHigh(u) == u >= 55296 /\ u <= 56319      \* 0xD800..0xDBFF
IsLow(u) == u >= 56320 /\ u <= 57343       \* 0xDC00..0xDFFF

\* A well-formed string has no lone surrogate.
WellFormed(s) ==
  \A i \in 1..Len(s) :
    /\ IsHigh(s[i]) => (i < Len(s) /\ IsLow(s[i + 1]))
    /\ IsLow(s[i]) => (i > 1 /\ IsHigh(s[i - 1]))

\* The concatenation of ss[lo..hi], by halves.
RECURSIVE FlattenRange(_, _, _)
FlattenRange(ss, lo, hi) ==
  IF lo > hi THEN <<>>
  ELSE IF lo = hi THEN ss[lo]
  ELSE LET mid == (lo + hi) \div 2 IN
       FlattenRange(ss, lo, mid) \o FlattenRange(ss, mid + 1, hi)

Flatten(ss) == FlattenRange(ss, 1, Len(ss))

\* The scalar values of a string (USVString conversion): a surrogate pair is
\* one code point, a lone surrogate becomes U+FFFD.
ToScalarValues(s) ==
  Flatten([i \in 1..Len(s) |->
    IF IsHigh(s[i]) /\ i < Len(s) /\ IsLow(s[i + 1])
      THEN <<65536 + ((s[i] - 55296) * 1024) + (s[i + 1] - 56320)>>
    ELSE IF IsLow(s[i]) /\ i > 1 /\ IsHigh(s[i - 1])
      THEN <<>>                      \* second half of the pair before
    ELSE IF IsHigh(s[i]) \/ IsLow(s[i]) THEN <<65533>>
    ELSE <<s[i]>>])

\* UTF-8 bytes of one scalar value.
Utf8Bytes(cp) ==
  IF cp < 128 THEN <<cp>>
  ELSE IF cp < 2048 THEN <<192 + (cp \div 64), 128 + (cp % 64)>>
  ELSE IF cp < 65536
    THEN <<224 + (cp \div 4096), 128 + ((cp \div 64) % 64), 128 + (cp % 64)>>
    ELSE <<240 + (cp \div 262144), 128 + ((cp \div 4096) % 64),
           128 + ((cp \div 64) % 64), 128 + (cp % 64)>>

\* encode: textEncoder.encode(s).
encode(s) ==
  Bind(ToScalarValues(s), LAMBDA cps :
    Flatten([i \in 1..Len(cps) |-> Utf8Bytes(cps[i])]))

\* The UTF-8 decoder of TextDecoder (not fatal).  Its state: the code point
\* being assembled, the continuation bytes still needed, and the bounds of
\* the next continuation byte.
DecoderStart == [cp |-> 0, needed |-> 0, lower |-> 128, upper |-> 191]

\* A byte read with no sequence open: <<code points emitted, next state>>.
Utf8Lead(byte) ==
  IF byte < 128 THEN <<<<byte>>, DecoderStart>>
  ELSE IF byte >= 194 /\ byte <= 223
    THEN <<<<>>, [cp |-> byte % 32, needed |-> 1, lower |-> 128, upper |-> 191]>>
  ELSE IF byte >= 224 /\ byte <= 239
    THEN <<<<>>, [cp |-> byte % 16, needed |-> 2,
                  lower |-> IF byte = 224 THEN 160 ELSE 128,
                  upper |-> IF byte = 237 THEN 159 ELSE 191]>>
  ELSE IF byte >= 240 /\ byte <= 244
    THEN <<<<>>, [cp |-> byte % 8, needed |-> 3,
                  lower |-> IF byte = 240 THEN 144 ELSE 128,
                  upper |-> IF byte = 244 THEN 143 ELSE 191]>>
  ELSE <<<<65533>>, DecoderStart>>

\* One byte through the decoder: a byte that breaks an open sequence yields
\* U+FFFD and is then read again as a lead byte.
Utf8Step(st, byte) ==
  IF st.needed = 0 THEN Utf8Lead(byte)
  ELSE IF byte < st.lower \/ byte > st.upper
    THEN Bind(Utf8Lead(byte), LAMBDA r : <<<<65533>> \o r[1], r[2]>>)
  ELSE IF st.needed = 1
    THEN <<<<(st.cp * 64) + (byte % 64)>>, DecoderStart>>
  ELSE <<<<>>, [cp |-> (st.cp * 64) + (byte % 64), needed |-> st.needed - 1,
                lower |-> 128, upper |-> 191]>>

\* The bytes b[lo..hi] through the decoder from state st, by halves:
\* <<code points emitted, state reached>>.
RECURSIVE Utf8Run(_, _, _, _)
Utf8Run(b, st, lo, hi) ==
  IF lo > hi THEN <<<<>>, st>>
  ELSE IF lo = hi THEN Utf8Step(st, b[lo])
  ELSE Bind(Utf8Run(b, st, lo, (lo + hi) \div 2), LAMBDA left :
       Bind(Utf8Run(b, left[2], ((lo + hi) \div 2) + 1, hi), LAMBDA right :
         <<left[1] \o right[1], right[2]>>))

\* The code points of a byte sequence; a sequence cut short by the end of
\* the input yields U+FFFD.
Utf8Decode(b) ==
  Bind(Utf8Run(b, DecoderStart, 1, Len(b)), LAMBDA r :
    IF r[2].needed # 0 THEN r[1] \o <<65533>> ELSE r[1])

\* Code points to UTF-16 code units.
ToCodeUnits(cps) ==
  Flatten([i \in 1..Len(cps) |->
    IF cps[i] >= 65536
      THEN <<55296 + ((cps[i] - 65536) \div 1024),
             56320 + ((cps[i] - 65536) % 1024)>>
      ELSE <<cps[i]>>])

\* new TextDecoder() leaves ignoreBOM false: a leading byte order mark
\* EF BB BF is consumed and does not appear in the output.
StripBOM(b) ==
  IF Len(b) >= 3 /\ b[1] = 239 /\ b[2] = 187 /\ b[3] = 191
    THEN SubSeq(b, 4, Len(b))
    ELSE b

\* decode: textDecoder.decode(b).
decode(b) == ToCodeUnits(Utf8Decode(StripBOM(b)))

\* What the module's one TextDecoder object holds between calls of its
\* decode method: the state of its UTF-8 decoder and its "BOM seen" flag.
NewTextDecoder == [state |-> DecoderStart, bomSeen |-> FALSE]

\* Variant: decode(b, {stream: true}) neither flushes nor starts anew; an
\* open sequence and the flag are kept for the next call.
TextDecoderDecodeStreaming(d, b) ==
  Bind(IF d.bomSeen THEN b ELSE StripBOM(b), LAMBDA rest :
  Bind(Utf8Run(rest, d.state, 1, Len(rest)), LAMBDA r :
    [text |-> ToCodeUnits(r[1]),
     decoder |-> [state |-> r[2], bomSeen |-> d.bomSeen \/ Len(b) > 0]]))

\* d.decode(b) on a decoder object holding d: the string returned and what
\* the object holds afterwards.  Called without the stream option, decode
\* flushes (an open sequence yields U+FFFD) and the object starts anew.
TextDecoderDecode(d, b) ==
  Bind(IF d.bomSeen THEN b ELSE StripBOM(b), LAMBDA rest :
  Bind(Utf8Run(rest, d.state, 1, Len(rest)), LAMBDA r :
    [text |-> ToCodeUnits(IF r[2].needed # 0 THEN r[1] \o <<65533>> ELSE r[1]),
     decoder |-> NewTextDecoder]))

(***************************************************************************)
(* JavaScript values.  A value is <<tag, content>>; the tag decides the    *)
(* shape of the content.  Object entries are <<key, value>> with the key a *)
(* string (code units); Map entries are <<key value, value>>.  A Date      *)
(* holds its time value as <<days since the epoch, ms within the day>>.    *)
(***************************************************************************)
Undefined == <<"undefined", <<>>>>
Null == <<"null", <<>>>>
Bool(b) == <<"boolean", b>>
Num(n) == <<"number", n>>
Str(s) == <<"string", s>>
BigIntV(n) == <<"bigint", n>>
DateV(days, ms) == <<"Date", <<days, ms>>>>
InvalidDate == <<"InvalidDate", <<>>>>     \* new Date("not a date")
Function == <<"function", <<>>>>
Arr(elems) == <<"array", elems>>
Obj(entries) == <<"object", entries>>
MapV(entries) == <<"Map", entries>>
SetV(elems) == <<"Set", elems>>
U8(bs) == <<"Uint8Array", bs>>

Tag(v) == v[1]
Content(v) == v[2]

(***************************************************************************)
(* JSON.stringify, as called at src/src/encoding.ts lines 89 and 94.       *)
(***************************************************************************)
\* Decimal digits of a natural number, as code units.
RECURSIVE Digits(_)
Digits(n) ==
  IF n < 10 THEN <<48 + n>> ELSE Digits(n \div 10) \o <<48 + (n % 10)>>

\* Number::toString for the integers of the model.
NumberToString(n) == IF n < 0 THEN <<45>> \o Digits(0 - n) ELSE Digits(n)

HexDigit(d) == IF d < 10 THEN 48 + d ELSE 87 + d      \* 0-9, a-f

\* \uXXXX for a code unit.
UnicodeEscape(u) ==
  <<92, 117, HexDigit(u \div 4096), HexDigit((u \div 256) % 16),
    HexDigit((u \div 16) % 16), HexDigit(u % 16)>>

\* QuoteJSONString: the body of a JSON string literal for s[i..].  A quote
\* and a backslash are escaped, a control character and a lone surrogate
\* are written \uXXXX (line feed as \n).
RECURSIVE QuoteFrom(_, _)
QuoteFrom(s, i) ==
  IF i > Len(s) THEN <<>>
  ELSE IF s[i] = 34 THEN <<92, 34>> \o QuoteFrom(s, i + 1)
  ELSE IF s[i] = 92 THEN <<92, 92>> \o QuoteFrom(s, i + 1)
  ELSE IF s[i] = 10 THEN <<92, 110>> \o QuoteFrom(s, i + 1)
  ELSE IF s[i] < 32 THEN UnicodeEscape(s[i]) \o QuoteFrom(s, i + 1)
  ELSE IF IsHigh(s[i]) /\ i < Len(s) /\ IsLow(s[i + 1])
    THEN <<s[i], s[i + 1]>> \o QuoteFrom(s, i + 2)
  ELSE IF IsHigh(s[i]) \/ IsLow(s[i])
    THEN UnicodeEscape(s[i]) \o QuoteFrom(s, i + 1)
  ELSE <<s[i]>> \o QuoteFrom(s, i + 1)

QuoteJSONString(s) == <<34>> \o QuoteFrom(s, 1) \o <<34>>

\* SerializeJSONProperty yields undefined for these: the property is left
\* out of an object, and written null in an array.
NotSerialized(v) == Tag(v) \in {"undefined", "function"}

\* SerializeJSONProperty for a JSON tree (what superjson.serialize returns
\* as json, or as meta): null, boolean, number, string, array, object.
RECURSIVE SerializeJSON(_), SerializeElements(_, _), SerializeMembers(_, _, _)
SerializeJSON(v) ==
  CASE Tag(v) = "null" -> <<110, 117, 108, 108>>
    [] Tag(v) = "boolean" ->
         IF Content(v) THEN <<116, 114, 117, 101>>
                       ELSE <<102, 97, 108, 115, 101>>
    [] Tag(v) = "number" -> NumberToString(Content(v))
    [] Tag(v) = "string" -> QuoteJSONString(Content(v))
    [] Tag(v) = "array" -> <<91>> \o SerializeElements(Content(v), 1) \o <<93>>
    [] Tag(v) = "object" ->
         <<123>> \o SerializeMembers(Content(v), 1, TRUE) \o <<125>>

SerializeElements(elems, i) ==
  IF i > Len(elems) THEN <<>>
  ELSE (IF i > 1 THEN <<44>> ELSE <<>>)
       \o (IF NotSerialized(elems[i]) THEN <<110, 117, 108, 108>>
           ELSE SerializeJSON(elems[i]))
       \o SerializeElements(elems, i + 1)

SerializeMembers(entries, i, first) ==
  IF i > Len(entries) THEN <<>>
  ELSE IF NotSerialized(entries[i][2])
    THEN SerializeMembers(entries, i + 1, first)
    ELSE (IF first THEN <<>> ELSE <<44>>)
         \o QuoteJSONString(entries[i][1]) \o <<58>>
         \o SerializeJSON(entries[i][2])
         \o SerializeMembers(entries, i + 1, FALSE)

\* JSON.stringify(v): a string, or undefined when v itself is not
\* serialized.
JSONstringify(v) ==
  IF NotSerialized(v) THEN Undefined ELSE Str(SerializeJSON(v))

(***************************************************************************)
(* JSON.parse, as called at src/src/encoding.ts lines 103 and 110: a       *)
(* recursive-descent parser over code units.  A parse step returns         *)
(* [ok, v, i]: whether it succeeded, the value, and the next position.     *)
(* Number literals are integers (the numbers of the model).                *)
(***************************************************************************)
ParseFail == [ok |-> FALSE, v |-> Null, i |-> 0]
ParseOk(val, next) == [ok |-> TRUE, v |-> val, i |-> next]

\* The code unit at position i, or -1 past the end.
At(s, i) == IF i >= 1 /\ i <= Len(s) THEN s[i] ELSE 0 - 1

IsWs(u) == u \in {32, 9, 10, 13}
IsDigit(u) == u >= 48 /\ u <= 57

RECURSIVE SkipWs(_, _)
SkipWs(s, i) == IF IsWs(At(s, i)) THEN SkipWs(s, i + 1) ELSE i

HexValue(u) ==
  IF u >= 48 /\ u <= 57 THEN u - 48
  ELSE IF u >= 97 /\ u <= 102 THEN u - 87
  ELSE IF u >= 65 /\ u <= 70 THEN u - 55
  ELSE 0 - 1

\* The code unit an escape sequence stands for (the unit after the
\* backslash is at i), with the position after it; unit -1 when malformed.
ParseEscape(s, i) ==
  Bind(At(s, i), LAMBDA u :
    IF u \in {34, 92, 47} THEN <<u, i + 1>>
    ELSE IF u = 98 THEN <<8, i + 1>>
    ELSE IF u = 102 THEN <<12, i + 1>>
    ELSE IF u = 110 THEN <<10, i + 1>>
    ELSE IF u = 114 THEN <<13, i + 1>>
    ELSE IF u = 116 THEN <<9, i + 1>>
    ELSE IF u = 117
           /\ \A k \in 1..4 : HexValue(At(s, i + k)) >= 0
      THEN <<(HexValue(At(s, i + 1)) * 4096) + (HexValue(At(s, i + 2)) * 256)
               + (HexValue(At(s, i + 3)) * 16) + HexValue(At(s, i + 4)),
             i + 5>>
    ELSE <<0 - 1, i>>)

\* The rest of a string literal whose opening quote has been read.
RECURSIVE ParseString(_, _, _)
ParseString(s, i, acc) ==
  Bind(At(s, i), LAMBDA u :
    IF u < 32 THEN ParseFail     \* end of text, or a raw control character
    ELSE IF u = 34 THEN ParseOk(Str(acc), i + 1)
    ELSE IF u = 92
      THEN Bind(ParseEscape(s, i + 1), LAMBDA e :
             IF e[1] < 0 THEN ParseFail
             ELSE ParseString(s, e[2], Append(acc, e[1])))
    ELSE ParseString(s, i + 1, Append(acc, u)))

RECURSIVE ParseDigits(_, _, _)
ParseDigits(s, i, acc) ==
  IF IsDigit(At(s, i)) THEN ParseDigits(s, i + 1, (acc * 10) + (s[i] - 48))
  ELSE <<acc, i>>

\* An integer literal; a leading zero stands alone.
ParseNumber(s, i) ==
  Bind(At(s, i) = 45, LAMBDA neg :
  Bind(IF neg THEN i + 1 ELSE i, LAMBDA j :
    IF ~IsDigit(At(s, j)) THEN ParseFail
    ELSE Bind(IF At(s, j) = 48 THEN <<0, j + 1>> ELSE ParseDigits(s, j, 0),
              LAMBDA d : ParseOk(Num(IF neg THEN 0 - d[1] ELSE d[1]), d[2]))))

\* Does the literal lit stand at position i?
Matches(s, i, lit) ==
  /\ i + Len(lit) - 1 <= Len(s)
  /\ SubSeq(s, i, i + Len(lit) - 1) = lit

\* CreateDataProperty on the entries parsed so far: a repeated key keeps its
\* place and takes the later value.
SetEntry(entries, key, val) ==
  IF \E k \in 1..Len(entries) : entries[k][1] = key
    THEN [k \in 1..Len(entries) |->
            IF entries[k][1] = key THEN <<key, val>> ELSE entries[k]]
    ELSE Append(entries, <<key, val>>)

RECURSIVE ParseValue(_, _), ParseElements(_, _, _), ParseMembers(_, _, _)
ParseValue(s, i) ==
  Bind(SkipWs(s, i), LAMBDA j :
  Bind(At(s, j), LAMBDA u :
    CASE u = 34 -> ParseString(s, j + 1, <<>>)
      [] u = 91 ->
           Bind(SkipWs(s, j + 1), LAMBDA k :
             IF At(s, k) = 93 THEN ParseOk(Arr(<<>>), k + 1)
             ELSE ParseElements(s, k, <<>>))
      [] u = 123 ->
           Bind(SkipWs(s, j + 1), LAMBDA k :
             IF At(s, k) = 125 THEN ParseOk(Obj(<<>>), k + 1)
             ELSE ParseMembers(s, k, <<>>))
      [] u = 116 ->
           IF Matches(s, j, <<116, 114, 117, 101>>)
             THEN ParseOk(Bool(TRUE), j + 4) ELSE ParseFail
      [] u = 102 ->
           IF Matches(s, j, <<102, 97, 108, 115, 101>>)
             THEN ParseOk(Bool(FALSE), j + 5) ELSE ParseFail
      [] u = 110 ->
           IF Matches(s, j, <<110, 117, 108, 108>>)
             THEN ParseOk(Null, j + 4) ELSE ParseFail
      [] u = 45 \/ IsDigit(u) -> ParseNumber(s, j)
      [] OTHER -> ParseFail))

\* The elements of an array from position i on, up to the closing bracket.
ParseElements(s, i, acc) ==
  Bind(ParseValue(s, i), LAMBDA r :
    IF ~r.ok THEN ParseFail
    ELSE Bind(SkipWs(s, r.i), LAMBDA j :
      IF At(s, j) = 44 THEN ParseElements(s, j + 1, Append(acc, r.v))
      ELSE IF At(s, j) = 93 THEN ParseOk(Arr(Append(acc, r.v)), j + 1)
      ELSE ParseFail))

\* The members of an object from position i on, up to the closing brace.
ParseMembers(s, i, acc) ==
  Bind(SkipWs(s, i), LAMBDA j :
    IF At(s, j) # 34 THEN ParseFail
    ELSE Bind(ParseString(s, j + 1, <<>>), LAMBDA key :
      IF ~key.ok THEN ParseFail
      ELSE Bind(SkipWs(s, key.i), LAMBDA c :
        IF At(s, c) # 58 THEN ParseFail
        ELSE Bind(ParseValue(s, c + 1), LAMBDA r :
          IF ~r.ok THEN ParseFail
          ELSE Bind(SkipWs(s, r.i), LAMBDA e :
            IF At(s, e) = 44
              THEN ParseMembers(s, e + 1, SetEntry(acc, Content(key.v), r.v))
            ELSE IF At(s, e) = 125
              THEN ParseOk(Obj(SetEntry(acc, Content(key.v), r.v)), e + 1)
            ELSE ParseFail)))))

\* JSON.parse(text): [ok, v]; ok is FALSE when it throws a SyntaxError.
JSONparse(s) ==
  Bind(ParseValue(s, 1), LAMBDA r :
    IF r.ok /\ SkipWs(s, r.i) > Len(s) THEN [ok |-> TRUE, v |-> r.v]
    ELSE [ok |-> FALSE, v |-> Null])

(***************************************************************************)
(* Date.prototype.toISOString and new Date(isoString), which the           *)
(* serializer uses for a Date: YYYY-MM-DDTHH:mm:ss.sssZ, years 0..9999.    *)
(***************************************************************************)
\* <<year, month, day>> of a day number counted from 1970-01-01.
CivilFromDays(days) ==
  Bind(days + 719468, LAMBDA z :
  Bind(z \div 146097, LAMBDA era :
  Bind(z - (era * 146097), LAMBDA doe :
  Bind((doe - (doe \div 1460) + (doe \div 36524) - (doe \div 146096))
         \div 365, LAMBDA yoe :
  Bind(doe - ((365 * yoe) + (yoe \div 4) - (yoe \div 100)), LAMBDA doy :
  Bind(((5 * doy) + 2) \div 153, LAMBDA mp :
  Bind(doy - (((153 * mp) + 2) \div 5) + 1, LAMBDA d :
  Bind(IF mp < 10 THEN mp + 3 ELSE mp - 9, LAMBDA m :
    <<yoe + (era * 400) + (IF m <= 2 THEN 1 ELSE 0), m, d>>))))))))

\* The day number of a civil date.
DaysFromCivil(year, m, d) ==
  Bind(IF m <= 2 THEN year - 1 ELSE year, LAMBDA y :
  Bind(y \div 400, LAMBDA era :
  Bind(y - (era * 400), LAMBDA yoe :
  Bind((((153 * (IF m > 2 THEN m - 3 ELSE m + 9)) + 2) \div 5) + d - 1,
       LAMBDA doy :
    (era * 146097) + (yoe * 365) + (yoe \div 4) - (yoe \div 100) + doy
      - 719468))))

\* n in decimal, padded with zeros to w digits.
RECURSIVE Pad(_, _)
Pad(n, w) == IF w = 0 THEN <<>> ELSE Pad(n \div 10, w - 1) \o <<48 + (n % 10)>>

toISOString(t) ==
  Bind(CivilFromDays(t[1]), LAMBDA c :
  Bind(t[2], LAMBDA ms :
    Pad(c[1], 4) \o <<45>> \o Pad(c[2], 2) \o <<45>> \o Pad(c[3], 2)
    \o <<84>> \o Pad(ms \div 3600000, 2) \o <<58>>
    \o Pad((ms \div 60000) % 60, 2) \o <<58>>
    \o Pad((ms \div 1000) % 60, 2) \o <<46>> \o Pad(ms % 1000, 3) \o <<90>>))

\* The number written in s[from..to], or -1 when a unit is not a digit.
RECURSIVE DigitsValue(_, _, _)
DigitsValue(s, from, to) ==
  IF to < from THEN 0
  ELSE IF ~IsDigit(At(s, to)) THEN 0 - 1
  ELSE Bind(DigitsValue(s, from, to - 1), LAMBDA hi :
         IF hi < 0 THEN 0 - 1 ELSE (hi * 10) + (s[to] - 48))

\* new Date(s) for a string: the ISO format above, else an invalid Date.
DateFromFields(y, m, d, hh, mi, ss, ms) ==
  IF /\ y >= 0 /\ m >= 1 /\ m <= 12 /\ d >= 1 /\ d <= 31
     /\ hh >= 0 /\ hh <= 23 /\ mi >= 0 /\ mi <= 59 /\ ss >= 0 /\ ss <= 59
     /\ ms >= 0
    THEN DateV(DaysFromCivil(y, m, d),
               (hh * 3600000) + (mi * 60000) + (ss * 1000) + ms)
    ELSE InvalidDate

NewDate(s) ==
  IF /\ Len(s) = 24
     /\ s[5] = 45 /\ s[8] = 45 /\ s[11] = 84 /\ s[14] = 58 /\ s[17] = 58
     /\ s[20] = 46 /\ s[24] = 90
    THEN DateFromFields(DigitsValue(s, 1, 4), DigitsValue(s, 6, 7),
                        DigitsValue(s, 9, 10), DigitsValue(s, 12, 13),
                        DigitsValue(s, 15, 16), DigitsValue(s, 18, 19),
                        DigitsValue(s, 21, 23))
    ELSE InvalidDate

(***************************************************************************)
(* superjson.serialize / superjson.deserialize, the structural-            *)
(* serialization dependency called at src/src/encoding.ts lines 82 and     *)
(* 111.  serialize walks the value and returns a JSON tree plus, when it   *)
(* transformed something, meta = {values: annotations}.  An annotation is  *)
(* [type] or [type, children] for a transformed node and children for a    *)
(* plain container, children being an object from key (or array index) to  *)
(* the child's annotation.  The manifest is opaque to the converter; the   *)
(* model keeps the children nested instead of flattening their paths.      *)
(***************************************************************************)
TypeUndefined == Str(<<117, 110, 100, 101, 102, 105, 110, 101, 100>>)
TypeBigint == Str(<<98, 105, 103, 105, 110, 116>>)
TypeDate == Str(<<68, 97, 116, 101>>)
TypeSet == Str(<<115, 101, 116>>)
TypeMap == Str(<<109, 97, 112>>)
TypeTypedArray ==
  Arr(<<Str(<<116, 121, 112, 101, 100, 45, 97, 114, 114, 97, 121>>),
        Str(<<85, 105, 110, 116, 56, 65, 114, 114, 97, 121>>)>>)
KeyValues == <<118, 97, 108, 117, 101, 115>>

\* The entries <<key, annotation>> of the children that have one.
RECURSIVE InnerAnnotations(_, _, _)
InnerAnnotations(keys, results, i) ==
  IF i > Len(keys) THEN <<>>
  ELSE (IF results[i].ann = Undefined THEN <<>>
        ELSE <<<<keys[i], results[i].ann>>>>)
       \o InnerAnnotations(keys, results, i + 1)

\* The annotation of a container: type is Undefined for a plain array or
\* object, and the transformation's name for a Set or a Map.
ContainerAnnotation(type, inner) ==
  IF inner = <<>>
    THEN (IF type = Undefined THEN Undefined ELSE Arr(<<type>>))
    ELSE (IF type = Undefined THEN Obj(inner) ELSE Arr(<<type, Obj(inner)>>))

IndexKeys(n) == [k \in 1..n |-> NumberToString(k - 1)]

\* walker: [json, ann] for a value; ann is Undefined when nothing below was
\* transformed.  A value no rule applies to (a function) is passed through
\* as it is.
\* An array of walked elements, and an object of walked property values.
ArrayResult(results, type) ==
  [json |-> Arr([k \in 1..Len(results) |-> results[k].json]),
   ann |-> ContainerAnnotation(
             type, InnerAnnotations(IndexKeys(Len(results)), results, 1))]

ObjectResult(entries, results) ==
  [json |-> Obj([k \in 1..Len(entries) |-> <<entries[k][1], results[k].json>>]),
   ann |-> ContainerAnnotation(
             Undefined,
             InnerAnnotations([k \in 1..Len(entries) |-> entries[k][1]],
                              results, 1))]

RECURSIVE walker(_)
walker(v) ==
  CASE Tag(v) = "undefined" -> [json |-> Null, ann |-> Arr(<<TypeUndefined>>)]
    [] Tag(v) = "bigint" ->
         [json |-> Str(NumberToString(Content(v))), ann |-> Arr(<<TypeBigint>>)]
    [] Tag(v) = "Date" ->
         [json |-> Str(toISOString(Content(v))), ann |-> Arr(<<TypeDate>>)]
    [] Tag(v) = "Uint8Array" ->
         [json |-> Arr([k \in 1..Len(Content(v)) |-> Num(Content(v)[k])]),
          ann |-> Arr(<<TypeTypedArray>>)]
    [] Tag(v) = "array" ->
         ArrayResult([k \in 1..Len(Content(v)) |-> walker(Content(v)[k])],
                     Undefined)
    [] Tag(v) = "Set" ->
         ArrayResult([k \in 1..Len(Content(v)) |-> walker(Content(v)[k])],
                     TypeSet)
    [] Tag(v) = "Map" ->
         ArrayResult([k \in 1..Len(Content(v)) |->
                        walker(Arr(<<Content(v)[k][1], Content(v)[k][2]>>))],
                     TypeMap)
    [] Tag(v) = "object" ->
         ObjectResult(Content(v),
                      [k \in 1..Len(Content(v)) |-> walker(Content(v)[k][2])])
    [] OTHER -> [json |-> v, ann |-> Undefined]

\* superjson.serialize(value): [json, meta]; meta is Undefined when there
\* are no annotations.
superjson_serialize(v) ==
  Bind(walker(v), LAMBDA w :
    [json |-> w.json,
     meta |-> IF w.ann = Undefined THEN Undefined
              ELSE Obj(<<<<KeyValues, w.ann>>>>)])

\* The value of property key of an object value, or Undefined.
GetProperty(obj, key) ==
  IF Tag(obj) = "object" /\ \E k \in 1..Len(Content(obj)) : Content(obj)[k][1] = key
    THEN Content(obj)[CHOOSE k \in 1..Len(Content(obj)) :
                        Content(obj)[k][1] = key][2]
    ELSE Undefined

\* new Set(elems): later duplicates are dropped.
RECURSIVE NewSet(_, _)
NewSet(elems, acc) ==
  IF elems = <<>> THEN acc
  ELSE NewSet(Tail(elems),
              IF \E k \in 1..Len(acc) : acc[k] = Head(elems) THEN acc
              ELSE Append(acc, Head(elems)))

\* new Map(pairs): a repeated key keeps its place and takes the later value.
RECURSIVE NewMap(_, _)
NewMap(pairs, acc) ==
  IF pairs = <<>> THEN acc
  ELSE NewMap(Tail(pairs),
              SetEntry(acc, Content(Head(pairs))[1], Content(Head(pairs))[2]))

\* BigInt(s) for a decimal string.
NewBigInt(s) ==
  IF At(s, 1) = 45 THEN BigIntV(0 - DigitsValue(s, 2, Len(s)))
  ELSE BigIntV(DigitsValue(s, 1, Len(s)))

\* untransformValue: the value a transformed JSON node stands for.
untransformValue(j, type) ==
  CASE type = TypeUndefined -> Undefined
    [] type = TypeBigint -> NewBigInt(Content(j))
    [] type = TypeDate -> NewDate(Content(j))
    [] type = TypeSet -> SetV(NewSet(Content(j), <<>>))
    [] type = TypeMap -> MapV(NewMap(Content(j), <<>>))
    [] type = TypeTypedArray ->
         U8([k \in 1..Len(Content(j)) |-> Content(Content(j)[k])])
    [] OTHER -> j

\* applyValueAnnotations: children first, then the node itself.
RECURSIVE applyValueAnnotations(_, _), ApplyChildren(_, _, _)
applyValueAnnotations(j, ann) ==
  IF Tag(ann) = "array"
    THEN untransformValue(
           IF Len(Content(ann)) >= 2
             THEN ApplyChildren(j, Content(Content(ann)[2]), 1)
             ELSE j,
           Content(ann)[1])
    ELSE ApplyChildren(j, Content(ann), 1)

ApplyChildren(j, children, i) ==
  IF i > Len(children) THEN j
  ELSE ApplyChildren(
         IF Tag(j) = "array"
           THEN Arr([k \in 1..Len(Content(j)) |->
                       IF NumberToString(k - 1) = children[i][1]
                         THEN applyValueAnnotations(Content(j)[k],
                                                    children[i][2])
                         ELSE Content(j)[k]])
           ELSE Obj([k \in 1..Len(Content(j)) |->
                       IF Content(j)[k][1] = children[i][1]
                         THEN <<children[i][1],
                                applyValueAnnotations(Content(j)[k][2],
                                                      children[i][2])>>
                         ELSE Content(j)[k]]),
         children, i + 1)

\* superjson.deserialize({json, meta}).
superjson_deserialize(json, meta) ==
  Bind(GetProperty(meta, KeyValues), LAMBDA values :
    IF values = Undefined THEN json ELSE applyValueAnnotations(json, values))

(***************************************************************************)
(* Payloads.  metadata is a record from key to bytes and may be absent;    *)
(* data is a byte sequence and may be absent.  An optional byte sequence   *)
(* is [present, bytes].                                                    *)
(***************************************************************************)
Some(b) == [present |-> TRUE, bytes |-> b]
None == [present |-> FALSE, bytes |-> <<>>]

EmptyRecord == [k \in {} |-> <<>>]

Payload(entries, data) ==
  [metadata |-> [present |-> TRUE, entries |-> entries], data |-> data]

NoMetadataPayload(data) ==
  [metadata |-> [present |-> FALSE, entries |-> EmptyRecord], data |-> data]

\* payload.metadata?.[key]
MetadataGet(payload, key) ==
  IF payload.metadata.present /\ key \in DOMAIN payload.metadata.entries
    THEN Some(payload.metadata.entries[key])
    ELSE None

\* Variant: !x?.length, a byte array of length zero counts as missing.
IsFalsyByLength(opt) == ~opt.present \/ Len(opt.bytes) = 0

\* !x for an optional Uint8Array: an object is truthy whatever its length.
IsFalsy(opt) == ~opt.present

\* What a call does: it returns a payload, returns undefined, returns a
\* value, or throws.
ReturnPayload(p) ==
  [kind |-> "payload", payload |-> p, value |-> Undefined, error |-> ""]
ReturnUndefined ==
  [kind |-> "undefined", payload |-> NoMetadataPayload(None),
   value |-> Undefined, error |-> ""]
ReturnValue(v) ==
  [kind |-> "value", payload |-> NoMetadataPayload(None), value |-> v,
   error |-> ""]
Throw(e) ==
  [kind |-> "throw", payload |-> NoMetadataPayload(None), value |-> Undefined,
   error |-> e]
NotCalled ==
  [kind |-> "none", payload |-> NoMetadataPayload(None), value |-> Undefined,
   error |-> ""]

(***************************************************************************)
(* SuperJsonPayloadConverter: src/src/encoding.ts lines 44-113.            *)
(***************************************************************************)
METADATA_ENCODING_KEY == "encoding"
SUPERJSON_META_KEY == "superjson-meta"
ENCODING == <<106, 115, 111, 110, 47, 112, 108, 97, 105, 110>>  \* json/plain

\* encode(x) for a JavaScript argument: TextEncoder.encode takes the empty
\* string when its argument is undefined.
encodeArgument(x) == IF x = Undefined THEN encode(<<>>) ELSE encode(Content(x))

\* Variant: the converter declares the binary handler's identifier.
SuperJsonEncodingTypeBinary ==
  <<98, 105, 110, 97, 114, 121, 47, 112, 108, 97, 105, 110>>

SuperJsonEncodingType == ENCODING

\* Variant: value == undefined in place of ===, which declines null too.
SuperJsonToPayloadLooseEquality(value) ==
  IF value = Undefined \/ value = Null THEN ReturnUndefined
  ELSE Bind(superjson_serialize(value), LAMBDA r :
         ReturnPayload(
           Payload(IF r.meta # Undefined
                     THEN (METADATA_ENCODING_KEY :> encode(ENCODING))
                            @@ (SUPERJSON_META_KEY
                                  :> encodeArgument(JSONstringify(r.meta)))
                     ELSE (METADATA_ENCODING_KEY :> encode(ENCODING)),
                   Some(encodeArgument(JSONstringify(r.json))))))

\* Variant: the manifest entry replaces the metadata instead of joining it.
SuperJsonToPayloadManifestOnly(value) ==
  IF value = Undefined THEN ReturnUndefined
  ELSE Bind(superjson_serialize(value), LAMBDA r :
         ReturnPayload(
           Payload(IF r.meta # Undefined
                     THEN (SUPERJSON_META_KEY
                             :> encodeArgument(JSONstringify(r.meta)))
                     ELSE (METADATA_ENCODING_KEY :> encode(ENCODING)),
                   Some(encodeArgument(JSONstringify(r.json))))))

\* toPayload(value)
SuperJsonToPayload(value) ==
  IF value = Undefined THEN ReturnUndefined
  ELSE Bind(superjson_serialize(value), LAMBDA r :
         ReturnPayload(
           Payload(IF r.meta # Undefined
                     THEN (METADATA_ENCODING_KEY :> encode(ENCODING))
                            @@ (SUPERJSON_META_KEY
                                  :> encodeArgument(JSONstringify(r.meta)))
                     ELSE (METADATA_ENCODING_KEY :> encode(ENCODING)),
                   Some(encodeArgument(JSONstringify(r.json))))))

\* Variant: the manifest is never read.
SuperJsonFromPayloadIgnoringManifest(payload) ==
  IF IsFalsy(payload.data) THEN Throw("ValueError: Payload data is missing")
  ELSE Bind(JSONparse(decode(payload.data.bytes)), LAMBDA json :
         IF ~json.ok THEN Throw("SyntaxError") ELSE ReturnValue(json.v))

\* Variant: missing data is answered with undefined, as the binary handler
\* does, when the payload has no manifest.
SuperJsonFromPayloadDefaulting(payload) ==
  IF IsFalsy(payload.data)
    THEN (IF IsFalsy(MetadataGet(payload, SUPERJSON_META_KEY))
            THEN ReturnValue(Undefined)
            ELSE Throw("ValueError: Payload data is missing"))
  ELSE Bind(JSONparse(decode(payload.data.bytes)), LAMBDA json :
         IF ~json.ok THEN Throw("SyntaxError")
         ELSE Bind(MetadataGet(payload, SUPERJSON_META_KEY), LAMBDA metaRaw :
           IF IsFalsy(metaRaw) THEN ReturnValue(json.v)
           ELSE Bind(JSONparse(decode(metaRaw.bytes)), LAMBDA meta :
             IF ~meta.ok THEN Throw("SyntaxError")
             ELSE ReturnValue(superjson_deserialize(json.v, meta.v)))))

\* Variant: payload.metadata[...] in place of payload.metadata?.[...], a
\* TypeError when the payload has no metadata.
SuperJsonFromPayloadRequiringMetadata(payload) ==
  IF IsFalsy(payload.data) THEN Throw("ValueError: Payload data is missing")
  ELSE Bind(JSONparse(decode(payload.data.bytes)), LAMBDA json :
         IF ~json.ok THEN Throw("SyntaxError")
         ELSE IF ~payload.metadata.present THEN Throw("TypeError")
         ELSE Bind(MetadataGet(payload, SUPERJSON_META_KEY), LAMBDA metaRaw :
           IF IsFalsy(metaRaw) THEN ReturnValue(json.v)
           ELSE Bind(JSONparse(decode(metaRaw.bytes)), LAMBDA meta :
             IF ~meta.ok THEN Throw("SyntaxError")
             ELSE ReturnValue(superjson_deserialize(json.v, meta.v)))))

\* Variant: a manifest that does not parse is dropped and the body is
\* returned as plain JSON.
SuperJsonFromPayloadManifestFallback(payload) ==
  IF IsFalsy(payload.data) THEN Throw("ValueError: Payload data is missing")
  ELSE Bind(JSONparse(decode(payload.data.bytes)), LAMBDA json :
         IF ~json.ok THEN Throw("SyntaxError")
         ELSE Bind(MetadataGet(payload, SUPERJSON_META_KEY), LAMBDA metaRaw :
           IF IsFalsy(metaRaw) THEN ReturnValue(json.v)
           ELSE Bind(JSONparse(decode(metaRaw.bytes)), LAMBDA meta :
             IF ~meta.ok THEN ReturnValue(json.v)
             ELSE ReturnValue(superjson_deserialize(json.v, meta.v)))))

\* fromPayload(payload)
SuperJsonFromPayload(payload) ==
  IF IsFalsy(payload.data) THEN Throw("ValueError: Payload data is missing")
  ELSE Bind(JSONparse(decode(payload.data.bytes)), LAMBDA json :
         IF ~json.ok THEN Throw("SyntaxError")
         ELSE Bind(MetadataGet(payload, SUPERJSON_META_KEY), LAMBDA metaRaw :
           IF IsFalsy(metaRaw) THEN ReturnValue(json.v)
           ELSE Bind(JSONparse(decode(metaRaw.bytes)), LAMBDA meta :
             IF ~meta.ok THEN Throw("SyntaxError")
             ELSE ReturnValue(superjson_deserialize(json.v, meta.v)))))

\* The default converter's json/plain entry, which knows no manifest (an
\* old worker): JSON.parse of the decoded data.
JsonFromPayload(payload) ==
  IF ~payload.data.present THEN Throw("ValueError: Got payload with no data")
  ELSE Bind(JSONparse(decode(payload.data.bytes)), LAMBDA json :
         IF ~json.ok THEN Throw("SyntaxError") ELSE ReturnValue(json.v))

(***************************************************************************)
(* The composite payloadConverter: src/src/encoding.ts lines 136-140, and  *)
(* its two peers.                                                          *)
(***************************************************************************)
BinaryNullEncoding == <<98, 105, 110, 97, 114, 121, 47, 110, 117, 108, 108>>
BinaryPlainEncoding ==
  <<98, 105, 110, 97, 114, 121, 47, 112, 108, 97, 105, 110>>

\* UndefinedPayloadConverter: owns undefined, emits no data.
UndefinedToPayload(v) ==
  IF v # Undefined THEN ReturnUndefined
  ELSE ReturnPayload(
         Payload(METADATA_ENCODING_KEY :> encode(BinaryNullEncoding), None))

UndefinedFromPayload(payload) == ReturnValue(Undefined)

\* BinaryPayloadConverter: owns Uint8Array, the data is the array itself.
BinaryToPayload(v) ==
  IF Tag(v) # "Uint8Array" THEN ReturnUndefined
  ELSE ReturnPayload(
         Payload(METADATA_ENCODING_KEY :> encode(BinaryPlainEncoding),
                 Some(Content(v))))

BinaryFromPayload(payload) ==
  IF ~payload.data.present THEN ReturnValue(Undefined)
  ELSE ReturnValue(U8(payload.data.bytes))

\* Variant: the SuperJSON converter is constructed first.
payloadConverterSuperJsonFirst ==
  <<"SuperJsonPayloadConverter", "UndefinedPayloadConverter",
    "BinaryPayloadConverter">>

\* The chain, in the order of construction.
payloadConverter == <<"UndefinedPayloadConverter", "BinaryPayloadConverter",
                      "SuperJsonPayloadConverter">>

EncodingType(c) ==
  CASE c = "UndefinedPayloadConverter" -> BinaryNullEncoding
    [] c = "BinaryPayloadConverter" -> BinaryPlainEncoding
    [] c = "SuperJsonPayloadConverter" -> SuperJsonEncodingType

ConverterToPayload(c, v) ==
  CASE c = "UndefinedPayloadConverter" -> UndefinedToPayload(v)
    [] c = "BinaryPayloadConverter" -> BinaryToPayload(v)
    [] c = "SuperJsonPayloadConverter" -> SuperJsonToPayload(v)

ConverterFromPayload(c, payload) ==
  CASE c = "UndefinedPayloadConverter" -> UndefinedFromPayload(payload)
    [] c = "BinaryPayloadConverter" -> BinaryFromPayload(payload)
    [] c = "SuperJsonPayloadConverter" -> SuperJsonFromPayload(payload)

\* converterByEncoding.get(encoding): the entry of the chain registered
\* under the identifier (a later entry replaces an earlier one of the same
\* identifier), 0 when there is none.
ConverterByEncoding(chain, encoding) ==
  Bind({k \in 1..Len(chain) : EncodingType(chain[k]) = encoding}, LAMBDA hits :
    IF hits = {} THEN 0 ELSE CHOOSE k \in hits : \A m \in hits : m <= k)

\* The chain entry the composite's fromPayload selects for a payload.
SelectedConverter(chain, payload) ==
  IF ~payload.metadata.present THEN 0
  ELSE Bind(MetadataGet(payload, METADATA_ENCODING_KEY), LAMBDA raw :
         ConverterByEncoding(chain,
                             IF raw.present THEN decode(raw.bytes) ELSE <<>>))

\* The composite's fromPayload over a chain.
CompositeFromPayload(chain, payload) ==
  IF ~payload.metadata.present
    THEN Throw("ValueError: Missing payload metadata")
  ELSE Bind(SelectedConverter(chain, payload), LAMBDA k :
         IF k = 0 THEN Throw("ValueError: Unknown encoding")
         ELSE ConverterFromPayload(chain[k], payload))

(***************************************************************************)
(* Inputs.                                                                 *)
(***************************************************************************)
\* 'A', e-acute (2 bytes), euro sign (3 bytes), U+FEFF, and the two halves
\* of U+1F600 (4 bytes as a pair, ill-formed alone).
CodecAlphabet == {65, 233, 8364, 65279, 55357, 56832}

SeqsUpTo(S, n) == UNION {[1..k -> S] : k \in 0..n}

CodecStrings == SeqsUpTo(CodecAlphabet, MaxStrLen)

Hi == Str(<<104, 105>>)
Date2024 == DateV(19723, 0)                  \* 2024-01-01T00:00:00.000Z
DateJune == DateV(19889, 45000000)           \* 2024-06-15T12:30:00.000Z
Date1969 == DateV(0 - 1, 86399999)           \* 1969-12-31T23:59:59.999Z

PlainLeaves ==
  { Null, Bool(TRUE), Bool(FALSE), Num(0), Num(42), Num(0 - 7),
    Str(<<>>), Hi,
    Str(<<233, 34, 92, 10>>),                \* e-acute, quote, backslash, LF
    Str(<<65279, 120>>),                     \* begins with U+FEFF
    Str(<<55357, 56832>>),                   \* U+1F600
    Str(<<55357>>),                          \* a lone surrogate
    Str(toISOString(<<19723, 0>>)) }         \* a string that reads as a date

RichLeaves ==
  { Date2024, DateJune, Date1969, BigIntV(42), BigIntV(0 - 9007),
    U8(<<1, 2, 255>>), U8(<<>>) }

\* What generated containers hold.
Elems ==
  { Null, Num(42), Hi, Date2024, BigIntV(42), Undefined, SetV(<<DateJune>>) }

ObjectKey(k) == <<96 + k>>                   \* a, b, c, ...
MapKey(k) == IF k = 1 THEN Hi ELSE IF k = 2 THEN Num(1) ELSE DateV(k, 0)

Distinct(s) == \A i, j \in 1..Len(s) : s[i] = s[j] => i = j

ElemSeqs == SeqsUpTo(Elems, MaxLen)

Containers ==
  {Arr(s) : s \in ElemSeqs}
    \cup {SetV(s) : s \in {t \in ElemSeqs : Distinct(t)}}
    \cup {Obj([k \in 1..Len(s) |-> <<ObjectKey(k), s[k]>>]) : s \in ElemSeqs}
    \cup {MapV([k \in 1..Len(s) |-> <<MapKey(k), s[k]>>]) : s \in ElemSeqs}

\* The scenario of the tests: {id, createdAt, tags}.
Scenario ==
  Obj(<< <<<<105, 100>>, Str(<<116, 101, 115, 116, 45, 49, 50, 51>>)>>,
         <<<<99, 114, 101, 97, 116, 101, 100, 65, 116>>, Date2024>>,
         <<<<116, 97, 103, 115>>,
           SetV(<<Str(<<105, 109, 112, 111, 114, 116, 97, 110, 116>>),
                  Str(<<117, 114, 103, 101, 110, 116>>)>>)>> >>)

NestedSamples ==
  { Scenario,
    MapV(<< <<Hi, SetV(<<Date2024, DateJune>>)>>, <<Num(1), BigIntV(42)>> >>),
    Obj(<< <<<<110>>, Obj(<< <<<<100>>, DateJune>> >>)>>, <<<<97, 46, 98>>, Num(1)>> >>),
    Obj(<< <<<<110>>, Obj(<< <<<<120>>, Arr(<<Num(1), Hi>>)>> >>)>> >>),
    Arr(<<Arr(<<Num(1), Arr(<<>>)>>), Obj(<<>>), U8(<<7>>)>>) }

\* Values the serializer does not support: it passes a function through
\* untransformed.
UnsupportedSamples ==
  { Function,
    Obj(<< <<<<102>>, Function>> >>),
    Obj(<< <<<<102>>, Function>>, <<<<100>>, Date2024>> >>),
    Arr(<<Function, Num(1)>>),
    MapV(<< <<Hi, Function>> >>),
    SetV(<<Function>>) }

Values ==
  {Undefined} \cup PlainLeaves \cup RichLeaves \cup Containers
    \cup NestedSamples \cup UnsupportedSamples

RECURSIVE ContainsTag(_, _)
ContainsTag(v, tags) ==
  \/ Tag(v) \in tags
  \/ /\ Tag(v) \in {"array", "Set"}
     /\ \E k \in 1..Len(Content(v)) : ContainsTag(Content(v)[k], tags)
  \/ /\ Tag(v) = "object"
     /\ \E k \in 1..Len(Content(v)) : ContainsTag(Content(v)[k][2], tags)
  \/ /\ Tag(v) = "Map"
     /\ \E k \in 1..Len(Content(v)) :
          \/ ContainsTag(Content(v)[k][1], tags)
          \/ ContainsTag(Content(v)[k][2], tags)

\* A value plain JSON represents losslessly: null, booleans, numbers,
\* strings, and arrays and objects of them.
IsPlainJSON(v) ==
  ~ContainsTag(v, {"undefined", "bigint", "Date", "function", "Map", "Set",
                   "Uint8Array"})

\* A value the serializer supports.
Supported(v) == v # Undefined /\ ~ContainsTag(v, {"function"})

\* Metadata of hand-built payloads that carry no manifest.
LegacyMetadata ==
  { [present |-> TRUE, entries |-> METADATA_ENCODING_KEY :> encode(ENCODING)],
    [present |-> TRUE, entries |-> EmptyRecord],
    [present |-> FALSE, entries |-> EmptyRecord] }

\* Metadata of hand-built payloads without data.
AnyMetadata ==
  LegacyMetadata \cup
  { [present |-> TRUE,
     entries |-> (METADATA_ENCODING_KEY :> encode(ENCODING))
                   @@ (SUPERJSON_META_KEY
                         :> encodeArgument(
                              JSONstringify(superjson_serialize(Date2024).meta)))] }

\* Byte sequences that are not the UTF-8 of a JSON text: no bytes at all,
\* "{", "[1,", "undefined", and E2 82, cut inside a UTF-8 sequence.
MalformedTexts ==
  { <<>>, <<123>>, <<91, 49, 44>>,
    <<117, 110, 100, 101, 102, 105, 110, 101, 100>>, <<226, 130>> }

\* Bodies of hand-built payloads with the tree each states; undefined, which
\* no JSON text states, marks a body that is not JSON text.
HandBuiltBodies ==
  {[tree |-> j, bytes |-> encode(SerializeJSON(j))] :
     j \in {Hi, Str(toISOString(Content(Date2024)))}}
    \cup {[tree |-> Undefined, bytes |-> b] : b \in MalformedTexts}

\* Metadata of hand-built payloads with data: without a manifest entry, with
\* the manifest of a Date, and with an entry that is not JSON text.
HandBuiltMetadata ==
  AnyMetadata \cup
  { [present |-> TRUE,
     entries |-> (METADATA_ENCODING_KEY :> encode(ENCODING))
                   @@ (SUPERJSON_META_KEY :> b)] : b \in MalformedTexts }

\* Payloads no entry of the chain declares, for the composite's fromPayload.
ForeignPayloads ==
  { Payload(METADATA_ENCODING_KEY
              :> encode(<<106, 115, 111, 110, 47, 112, 114, 111, 116, 111, 98,
                          117, 102>>),                    \* json/protobuf
            Some(encode(<<49>>))),
    Payload(EmptyRecord, Some(encode(<<49>>))),
    NoMetadataPayload(Some(encode(<<49>>))) }

\* Values the concurrent callers hand to toPayload.
ConcurrentValues == {Undefined, Hi, Date2024}

\* Payloads the concurrent callers hand to fromPayload: those toPayload
\* makes, one without data, one whose body ends inside a UTF-8 sequence
\* (E2 82) and one whose body begins with a byte order mark (EF BB BF "1").
ConcurrentPayloads ==
  {SuperJsonToPayload(v).payload : v \in ConcurrentValues \ {Undefined}}
    \cup { Payload(METADATA_ENCODING_KEY :> encode(ENCODING), None),
           Payload(METADATA_ENCODING_KEY :> encode(ENCODING), Some(<<226, 130>>)),
           Payload(METADATA_ENCODING_KEY :> encode(ENCODING),
                   Some(<<239, 187, 191, 49>>)) }

\* A caller that is not in a call.
NoCall ==
  [op |-> "none", input |-> Undefined, at |-> "idle", local |-> Undefined,
   result |-> NotCalled, overlapped |-> FALSE]

(***************************************************************************)
(* State machine: a caller makes one chain of calls at a time.             *)
(***************************************************************************)
Init ==
  /\ pc = "idle"
  /\ text = <<>>
  /\ bytes = <<>>
  /\ decoded = <<>>
  /\ arg = Undefined
  /\ encoded = NotCalled
  /\ restored = NotCalled
  /\ idx = 0
  /\ decoder = 0
  /\ textDecoder = NewTextDecoder
  /\ calls = [c \in 1..NumCallers |-> NoCall]

\* encode(s)
CallEncode ==
  /\ pc = "idle"
  /\ \E s \in CodecStrings :
       /\ text' = s
       /\ bytes' = encode(s)
  /\ pc' = "encode"
  /\ UNCHANGED <<decoded, arg, encoded, restored, idx, decoder, textDecoder,
               calls>>

\* decode(b) of the bytes encode returned.
CallDecode ==
  /\ pc = "encode"
  /\ decoded' = decode(bytes)
  /\ pc' = "decode"
  /\ UNCHANGED <<text, bytes, arg, encoded, restored, idx, decoder, textDecoder,
               calls>>

\* converter.toPayload(v)
CallToPayload ==
  /\ pc = "idle"
  /\ \E v \in Values :
       /\ arg' = v
       /\ encoded' = SuperJsonToPayload(v)
  /\ pc' = "toPayload"
  /\ UNCHANGED <<text, bytes, decoded, restored, idx, decoder, textDecoder,
               calls>>

\* converter.fromPayload(p) of the payload toPayload returned.
CallFromPayload ==
  /\ pc = "toPayload"
  /\ encoded.kind = "payload"
  /\ restored' = SuperJsonFromPayload(encoded.payload)
  /\ pc' = "roundTrip"
  /\ UNCHANGED <<text, bytes, decoded, arg, encoded, idx, decoder, textDecoder,
               calls>>

\* An old worker reads the payload toPayload returned with the default
\* converter.
OldWorkerFromPayload ==
  /\ pc = "toPayload"
  /\ encoded.kind = "payload"
  /\ restored' = JsonFromPayload(encoded.payload)
  /\ pc' = "oldWorker"
  /\ UNCHANGED <<text, bytes, decoded, arg, encoded, idx, decoder, textDecoder,
               calls>>

\* converter.fromPayload on a hand-built payload without a manifest, whose
\* body is the JSON text of a plain tree j.
CallFromPayloadLegacy ==
  /\ pc = "idle"
  /\ \E j \in {v \in Values : IsPlainJSON(v)}, m \in LegacyMetadata :
     \E p \in {[metadata |-> m, data |-> Some(encode(SerializeJSON(j)))]} :
       /\ arg' = j
       /\ encoded' = ReturnPayload(p)
       /\ restored' = SuperJsonFromPayload(p)
  /\ pc' = "fromPayload.legacy"
  /\ UNCHANGED <<text, bytes, decoded, idx, decoder, textDecoder, calls>>

\* converter.fromPayload on a hand-built payload without data.
CallFromPayloadNoData ==
  /\ pc = "idle"
  /\ \E m \in AnyMetadata :
     \E p \in {[metadata |-> m, data |-> None]} :
       /\ encoded' = ReturnPayload(p)
       /\ restored' = SuperJsonFromPayload(p)
  /\ arg' = Undefined
  /\ pc' = "fromPayload.noData"
  /\ UNCHANGED <<text, bytes, decoded, idx, decoder, textDecoder, calls>>

\* converter.fromPayload on a hand-built payload with data: the body and
\* the manifest entry, each well-formed, malformed or empty.
CallFromPayloadHandBuilt ==
  /\ pc = "idle"
  /\ \E h \in HandBuiltBodies, m \in HandBuiltMetadata :
     \E p \in {[metadata |-> m, data |-> Some(h.bytes)]} :
       /\ arg' = h.tree
       /\ encoded' = ReturnPayload(p)
       /\ restored' = SuperJsonFromPayload(p)
  /\ pc' = "fromPayload.handBuilt"
  /\ UNCHANGED <<text, bytes, decoded, idx, decoder, textDecoder, calls>>

\* payloadConverter.toPayload(v): the loop starts at the first entry.
CompositeToPayloadStart ==
  /\ pc = "idle"
  /\ \E v \in Values : arg' = v
  /\ idx' = 1
  /\ pc' = "composite.loop"
  /\ UNCHANGED <<text, bytes, decoded, encoded, restored, decoder, textDecoder,
               calls>>

\* One turn of the loop: the entry's toPayload is called; a defined result
\* (or a throw) ends the call, undefined moves on to the next entry, and
\* past the last entry the composite throws.
CompositeTry ==
  /\ pc = "composite.loop"
  /\ \E r \in {ConverterToPayload(payloadConverter[idx], arg)} :
     IF r.kind # "undefined"
       THEN /\ encoded' = r
            /\ pc' = "composite.toPayload"
            /\ idx' = idx
       ELSE IF idx < Len(payloadConverter)
         THEN /\ idx' = idx + 1
              /\ UNCHANGED <<encoded, pc>>
         ELSE /\ encoded' = Throw("ValueError: Unable to convert")
              /\ pc' = "composite.toPayload"
              /\ idx' = 0
  /\ UNCHANGED <<text, bytes, decoded, arg, restored, decoder, textDecoder,
               calls>>

\* payloadConverter.fromPayload(p) of the payload the composite returned.
CompositeFromPayloadCall ==
  /\ pc = "composite.toPayload"
  /\ encoded.kind = "payload"
  /\ restored' = CompositeFromPayload(payloadConverter, encoded.payload)
  /\ decoder' = SelectedConverter(payloadConverter, encoded.payload)
  /\ pc' = "composite.roundTrip"
  /\ UNCHANGED <<text, bytes, decoded, arg, encoded, idx, textDecoder, calls>>

\* payloadConverter.fromPayload on a payload of foreign make.
CompositeFromPayloadForeign ==
  /\ pc = "idle"
  /\ \E p \in ForeignPayloads :
       /\ encoded' = ReturnPayload(p)
       /\ restored' = CompositeFromPayload(payloadConverter, p)
       /\ decoder' = SelectedConverter(payloadConverter, p)
  /\ arg' = Undefined
  /\ pc' = "composite.fromPayload"
  /\ UNCHANGED <<text, bytes, decoded, idx, textDecoder, calls>>

\* The chain of calls is over; nothing of it is kept.
Return ==
  /\ pc \notin {"idle", "composite.loop"}
  /\ pc' = "idle"
  /\ text' = <<>>
  /\ bytes' = <<>>
  /\ decoded' = <<>>
  /\ arg' = Undefined
  /\ encoded' = NotCalled
  /\ restored' = NotCalled
  /\ idx' = 0
  /\ decoder' = 0
  /\ UNCHANGED <<textDecoder, calls>>

Next ==
  \/ CallEncode
  \/ CallDecode
  \/ CallToPayload
  \/ CallFromPayload
  \/ OldWorkerFromPayload
  \/ CallFromPayloadLegacy
  \/ CallFromPayloadNoData
  \/ CallFromPayloadHandBuilt
  \/ CompositeToPayloadStart
  \/ CompositeTry
  \/ CompositeFromPayloadCall
  \/ CompositeFromPayloadForeign
  \/ Return

Spec == Init /\ [][Next]_vars

(***************************************************************************)
(* Concurrent callers.  Each caller is in at most one call of the one      *)
(* converter object; a call advances from one use of the shared module     *)
(* state to the next, and the steps of different callers interleave.       *)
(***************************************************************************)
Callers == 1..NumCallers

\* Caller c's call moves on to the record rec; every other caller that is
\* inside a call has now seen a step of another caller during its own call.
Advance(c, rec) ==
  [d \in Callers |->
     IF d = c THEN rec
     ELSE IF calls[d].at \in {"idle", "done"} THEN calls[d]
     ELSE [calls[d] EXCEPT !.overlapped = TRUE]]

\* Caller c's call ends with the outcome r.
Finish(c, r) ==
  Advance(c, [calls[c] EXCEPT !.at = "done", !.result = r])

\* Caller c calls converter.toPayload(v).
InvokeToPayload(c) ==
  /\ calls[c].at = "idle"
  /\ \E v \in ConcurrentValues :
       calls' = Advance(c, [NoCall EXCEPT !.op = "toPayload", !.input = v,
                                         !.at = "toPayload.called"])
  /\ UNCHANGED <<pc, text, bytes, decoded, arg, encoded, restored, idx,
                 decoder, textDecoder>>

\* Caller c calls converter.fromPayload(p).
InvokeFromPayload(c) ==
  /\ calls[c].at = "idle"
  /\ \E p \in ConcurrentPayloads :
       calls' = Advance(c, [NoCall EXCEPT !.op = "fromPayload", !.input = p,
                                         !.at = "fromPayload.called"])
  /\ UNCHANGED <<pc, text, bytes, decoded, arg, encoded, restored, idx,
                 decoder, textDecoder>>

\* toPayload, to the end of superjson.serialize: undefined is declined, any
\* other value is serialized into locals of the call.
ToPayloadSerialize(c) ==
  /\ calls[c].at = "toPayload.called"
  /\ calls' =
       IF calls[c].input = Undefined
         THEN Finish(c, ReturnUndefined)
         ELSE Advance(c, [calls[c] EXCEPT
                            !.at = "toPayload.serialized",
                            !.local = superjson_serialize(calls[c].input)])
  /\ UNCHANGED <<pc, text, bytes, decoded, arg, encoded, restored, idx,
                 decoder, textDecoder>>

\* toPayload, from the metadata to the return: the shared textEncoder is
\* used and holds nothing.
ToPayloadEncode(c) ==
  /\ calls[c].at = "toPayload.serialized"
  /\ \E r \in {calls[c].local} :
       calls' = Finish(c,
         ReturnPayload(
           Payload(IF r.meta # Undefined
                     THEN (METADATA_ENCODING_KEY :> encode(ENCODING))
                            @@ (SUPERJSON_META_KEY
                                  :> encodeArgument(JSONstringify(r.meta)))
                     ELSE (METADATA_ENCODING_KEY :> encode(ENCODING)),
                   Some(encodeArgument(JSONstringify(r.json))))))
  /\ UNCHANGED <<pc, text, bytes, decoded, arg, encoded, restored, idx,
                 decoder, textDecoder>>

\* fromPayload, to the end of the parse of the body: the body goes through
\* the shared textDecoder.
FromPayloadParse(c) ==
  /\ calls[c].at = "fromPayload.called"
  /\ IF IsFalsy(calls[c].input.data)
       THEN /\ calls' = Finish(c, Throw("ValueError: Payload data is missing"))
            /\ UNCHANGED textDecoder
       ELSE \E d \in {TextDecoderDecode(textDecoder, calls[c].input.data.bytes)} :
            \E json \in {JSONparse(d.text)} :
              /\ textDecoder' = d.decoder
              /\ calls' =
                   IF ~json.ok THEN Finish(c, Throw("SyntaxError"))
                   ELSE Advance(c, [calls[c] EXCEPT !.at = "fromPayload.parsed",
                                                    !.local = json.v])
  /\ UNCHANGED <<pc, text, bytes, decoded, arg, encoded, restored, idx,
                 decoder>>

\* fromPayload, from the read of the manifest entry to the return: the
\* manifest goes through the shared textDecoder.
FromPayloadRestore(c) ==
  /\ calls[c].at = "fromPayload.parsed"
  /\ \E metaRaw \in {MetadataGet(calls[c].input, SUPERJSON_META_KEY)} :
       IF IsFalsy(metaRaw)
         THEN /\ calls' = Finish(c, ReturnValue(calls[c].local))
              /\ UNCHANGED textDecoder
         ELSE \E d \in {TextDecoderDecode(textDecoder, metaRaw.bytes)} :
              \E meta \in {JSONparse(d.text)} :
                /\ textDecoder' = d.decoder
                /\ calls' =
                     IF ~meta.ok THEN Finish(c, Throw("SyntaxError"))
                     ELSE Finish(c, ReturnValue(
                            superjson_deserialize(calls[c].local, meta.v)))
  /\ UNCHANGED <<pc, text, bytes, decoded, arg, encoded, restored, idx,
                 decoder>>

\* The caller has its result; the converter keeps nothing of the call.
CallReturn(c) ==
  /\ calls[c].at = "done"
  /\ calls' = Advance(c, NoCall)
  /\ UNCHANGED <<pc, text, bytes, decoded, arg, encoded, restored, idx,
                 decoder, textDecoder>>

ConcurrentNext ==
  \E c \in Callers :
    \/ InvokeToPayload(c)
    \/ InvokeFromPayload(c)
    \/ ToPayloadSerialize(c)
    \/ ToPayloadEncode(c)
    \/ FromPayloadParse(c)
    \/ FromPayloadRestore(c)
    \/ CallReturn(c)

ConcurrentSpec == Init /\ [][ConcurrentNext]_vars

(***************************************************************************)
(* Properties.                                                             *)
(***************************************************************************)
\* The metadata entries of the payload toPayload returned.
EncodedEntries == encoded.payload.metadata.entries

HasManifest == SUPERJSON_META_KEY \in DOMAIN EncodedEntries

\* C1: for every value v that is not undefined and that the serializer
\* supports (plain JSON, Date, Map, Set, BigInt and nestings of them),
\* fromPayload(toPayload(v)) is deep-equal to v.
C1_RoundTrip ==
  (pc = "roundTrip" /\ Supported(arg)) => restored = ReturnValue(arg)

C1_Witness ==
  /\ pc = "roundTrip"
  /\ arg = Scenario
  /\ HasManifest
  /\ restored = ReturnValue(Scenario)

\* C2: toPayload returns no payload if and only if the value is undefined;
\* for every other input (null, a Uint8Array, plain JSON) it returns a payload.
C2_DeclinesOnlyUndefined ==
  pc = "toPayload" =>
    /\ encoded.kind = "undefined" <=> arg = Undefined
    /\ arg # Undefined => encoded.kind = "payload"

C2_Witness ==
  /\ pc = "toPayload"
  /\ arg = Null
  /\ encoded.kind = "payload"
  /\ encoded.payload.data = Some(<<110, 117, 108, 108>>)

\* C3: every payload toPayload returns has data present and the encoding
\* entry equal to the UTF-8 bytes of "json/plain", whatever the input.
C3_PayloadInvariant ==
  (pc = "toPayload" /\ encoded.kind = "payload") =>
    /\ encoded.payload.data.present
    /\ encoded.payload.metadata.present
    /\ METADATA_ENCODING_KEY \in DOMAIN EncodedEntries
    /\ EncodedEntries[METADATA_ENCODING_KEY]
         = <<106, 115, 111, 110, 47, 112, 108, 97, 105, 110>>

C3_Witness ==
  /\ pc = "toPayload"
  /\ arg = MapV(<< <<Hi, Date2024>> >>)
  /\ HasManifest
  /\ encoded.payload.data.present
  /\ EncodedEntries[METADATA_ENCODING_KEY]
       = <<106, 115, 111, 110, 47, 112, 108, 97, 105, 110>>

\* C4 (as claimed): the payload toPayload(v) returns carries the
\* "superjson-meta" entry if and only if v contains a construct plain JSON
\* cannot represent losslessly.
C4_ManifestPresence ==
  (pc = "toPayload" /\ encoded.kind = "payload") =>
    (HasManifest <=> ~IsPlainJSON(arg))

\* C5: fromPayload on a payload without data fails with the ValueError
\* "Payload data is missing", whatever the metadata holds.
C5_MissingData ==
  pc = "fromPayload.noData" =>
    restored = Throw("ValueError: Payload data is missing")

C5_Witness ==
  /\ pc = "fromPayload.noData"
  /\ HasManifest
  /\ restored.kind = "throw"

\* C6: for a payload whose data is a JSON text and whose metadata has no
\* "superjson-meta" entry, fromPayload returns exactly the tree the text
\* states, with no type restored: objects, arrays and bare primitives.
C6_BackwardCompatibility ==
  pc = "fromPayload.legacy" => restored = ReturnValue(arg)

C6_Witness ==
  /\ pc = "fromPayload.legacy"
  /\ arg = Str(toISOString(<<19723, 0>>))
  /\ ~encoded.payload.metadata.present
  /\ restored = ReturnValue(arg)

\* C7 (as claimed): for every value toPayload accepts, the data is a valid
\* plain-JSON document, so a reader that ignores the manifest (the default
\* json/plain converter) decodes the payload without error.
C7_ForwardDegradation ==
  pc = "oldWorker" => restored.kind = "value"

\* The entry of the chain that owns a value on encode.
Owner(v) ==
  IF v = Undefined THEN "UndefinedPayloadConverter"
  ELSE IF Tag(v) = "Uint8Array" THEN "BinaryPayloadConverter"
  ELSE "SuperJsonPayloadConverter"

\* C8: the composite's toPayload tries the undefined handler, the binary
\* handler and the SuperJSON converter in that order and uses the first
\* that returns a payload: undefined goes to the undefined handler, a
\* Uint8Array to the binary handler, every other value to the SuperJSON
\* converter, and every input gets a payload.
C8_EncodeDispatch ==
  /\ pc = "composite.loop" =>
       /\ idx \in 1..Len(payloadConverter)
       /\ \A k \in 1..(idx - 1) :
            ConverterToPayload(payloadConverter[k], arg).kind = "undefined"
  /\ pc = "composite.toPayload" =>
       /\ encoded.kind = "payload"
       /\ idx \in 1..Len(payloadConverter)
       /\ payloadConverter[idx] = Owner(arg)
       /\ encoded = ConverterToPayload(payloadConverter[idx], arg)
       /\ \A k \in 1..(idx - 1) :
            ConverterToPayload(payloadConverter[k], arg).kind = "undefined"

C8_Witness ==
  /\ pc = "composite.toPayload"
  /\ arg = U8(<<1, 2, 255>>)
  /\ idx = 2
  /\ encoded.payload.data = Some(<<1, 2, 255>>)

\* C9: the composite's fromPayload selects the entry whose identifier
\* equals the payload's encoding entry, whatever the order of the chain,
\* and fails when no entry matches; the three identifiers are pairwise
\* distinct, so a payload of the composite's toPayload(v) is decoded by the
\* entry that encoded it and yields v back.
C9_DecodeDispatch ==
  /\ \A i, j \in 1..Len(payloadConverter) :
       EncodingType(payloadConverter[i]) = EncodingType(payloadConverter[j])
         => i = j
  /\ pc = "composite.roundTrip" =>
       /\ decoder = idx
       /\ EncodingType(payloadConverter[decoder])
            = decode(EncodedEntries[METADATA_ENCODING_KEY])
       /\ \A chain \in {c \in [1..3 -> {payloadConverter[k] : k \in 1..3}] :
                           Distinct(c)} :
            CompositeFromPayload(chain, encoded.payload) = restored
       /\ (arg = Undefined \/ Supported(arg)) => restored = ReturnValue(arg)
  /\ pc = "composite.fromPayload" =>
       /\ decoder = 0
       /\ restored.kind = "throw"
       /\ \A chain \in {c \in [1..3 -> {payloadConverter[k] : k \in 1..3}] :
                           Distinct(c)} :
            CompositeFromPayload(chain, encoded.payload) = restored

C9_Witness ==
  /\ pc = "composite.roundTrip"
  /\ arg = SetV(<<Date2024, BigIntV(42)>>)
  /\ decoder = 3
  /\ restored = ReturnValue(arg)

\* C10 (as claimed): decode(encode(s)) = s for every well-formed string s,
\* the empty string and strings beginning with any code point included.
C10_CodecRoundTrip ==
  (pc = "decode" /\ WellFormed(text)) => decoded = text

\* What a call returns when it is the only call made on the module as
\* loaded: the handler from entry to return.
Alone(op, input) ==
  IF op = "toPayload" THEN SuperJsonToPayload(input)
  ELSE SuperJsonFromPayload(input)

\* C11: toPayload and fromPayload keep nothing between calls and change
\* neither their argument nor the shared module state (the text encoder and
\* decoder, the converter chain): in every interleaving of concurrent calls
\* the shared decoder is left as it was loaded, each completed call has the
\* result it has when run alone, two calls on equal inputs have equal
\* results, and a call's argument is the same at every step of the call.
C11_Stateless ==
  /\ [](/\ textDecoder = NewTextDecoder
        /\ \A c \in Callers :
             calls[c].at = "done" =>
               calls[c].result = Alone(calls[c].op, calls[c].input)
        /\ \A c, d \in Callers :
             (/\ calls[c].at = "done"
              /\ calls[d].at = "done"
              /\ calls[c].op = calls[d].op
              /\ calls[c].input = calls[d].input)
               => calls[c].result = calls[d].result)
  /\ [][\A c \in Callers :
          calls[c].at \notin {"idle", "done"} =>
            /\ calls'[c].op = calls[c].op
            /\ calls'[c].input = calls[c].input]_vars

\* Two calls of fromPayload that overlapped: one restored a Date through
\* its manifest, the other failed on a body cut inside a UTF-8 sequence.
C11_Witness ==
  /\ calls[1].at = "done"
  /\ calls[2].at = "done"
  /\ calls[1].overlapped
  /\ calls[2].overlapped
  /\ calls[1].op = "fromPayload"
  /\ calls[1].input = SuperJsonToPayload(Date2024).payload
  /\ calls[1].result = ReturnValue(Date2024)
  /\ calls[2].op = "fromPayload"
  /\ calls[2].input.data = Some(<<226, 130>>)
  /\ calls[2].result = Throw("SyntaxError")

\* The manifest entry of the payload handed to fromPayload, when it has one.
ManifestEntry == EncodedEntries[SUPERJSON_META_KEY]

\* C12: with data present fromPayload never throws the "missing data"
\* ValueError; a body that is not JSON text, or a manifest entry that is not
\* JSON text under a body that is, ends the call with the parser's
\* SyntaxError; a call that fails returns no value, and a call fails for
\* no other reason.
C12_OnlyIntroducedError ==
  pc = "fromPayload.handBuilt" =>
    /\ encoded.payload.data.present
    /\ restored # Throw("ValueError: Payload data is missing")
    /\ restored.kind \in {"value", "throw"}
    /\ restored.kind = "throw" <=>
         \/ encoded.payload.data.bytes \in MalformedTexts
         \/ HasManifest /\ ManifestEntry \in MalformedTexts
    /\ restored.kind = "throw" =>
         /\ restored = Throw("SyntaxError")
         /\ restored.value = Undefined

\* A body that is JSON text under the manifest entry "{": the manifest's
\* SyntaxError ends the call.
C12_Witness ==
  /\ pc = "fromPayload.handBuilt"
  /\ arg = Hi
  /\ encoded.payload.data.present
  /\ HasManifest
  /\ ManifestEntry = <<123>>
  /\ restored = Throw("SyntaxError")

\* C13: presence is existence, not length.  fromPayload throws the "missing
\* data" ValueError exactly when the payload has no data; data of length
\* zero goes on to the parser and ends in its SyntaxError.  Under a body
\* that is JSON text the body's tree is returned as it stands exactly when
\* the payload has no manifest entry (or no metadata); a manifest entry of
\* length zero goes on to the parser and ends in its SyntaxError.
C13_PresenceByExistence ==
  pc \in {"fromPayload.handBuilt", "fromPayload.legacy", "fromPayload.noData"} =>
    /\ restored = Throw("ValueError: Payload data is missing")
         <=> ~encoded.payload.data.present
    /\ encoded.payload.data = Some(<<>>) => restored = Throw("SyntaxError")
    /\ (encoded.payload.data.present /\ arg # Undefined) =>
         /\ restored = ReturnValue(arg) <=> ~HasManifest
         /\ (HasManifest /\ ManifestEntry = <<>>) =>
              restored = Throw("SyntaxError")

\* A body that is JSON text under a manifest entry of length zero.
C13_Witness ==
  /\ pc = "fromPayload.handBuilt"
  /\ arg = Hi
  /\ encoded.payload.data = Some(<<34, 104, 105, 34>>)
  /\ HasManifest
  /\ ManifestEntry = <<>>
  /\ restored = Throw("SyntaxError")

====
